---------------------------- MODULE Spec2Model ----------------------------
(***************************************************************************)
(* The asynchronous processing pipeline of service_api: the relational     *)
(* store (Upload, Point, Distance, Task), the Celery queue, a pool of      *)
(* Celery workers and the six tasks of service_api/tasks.py, together      *)
(* with the status aggregator of service_api/domain/get_result.py.         *)
(*                                                                         *)
(* Every database transaction (a query, or the statements up to a commit)  *)
(* is one atomic step; a task that makes several is several steps, so the  *)
(* workers interleave exactly where the code lets them.  The workers are   *)
(* interchangeable, so the pool is the bag of the tasks in execution.      *)
(***************************************************************************)
EXTENDS Integers, Sequences, FiniteSets, Bags, TLC

(***************************************************************************)
(* Bounds of the model.                                                    *)
(***************************************************************************)
MaxUploads == 2      \* uploads submitted through POST /api/calculateDistances
MaxRows == 2         \* data rows of one CSV file
MaxFaults == 2       \* exceptions the environment raises in one execution
MaxMisses == 1       \* geocoder calls of one execution that find no address
NumWorkers == 2      \* Celery worker processes
MaxLoad == 3         \* size of one scenario (see Load)

(***************************************************************************)
(* The sizes of the program.  The three page sizes are 1000 in the source  *)
(* and Celery's default Task.max_retries is 3; they are scaled down here   *)
(* so that several pages, several batch units and the exhaustion of        *)
(* retries happen within the bounds above.                                 *)
(***************************************************************************)
BATCH_SIZE == 1      \* tasks.py:84   rows per bulk insert of process_upload
batch_size == 1      \* tasks.py:152  Distance rows per batch unit
page_size == 2       \* tasks.py:227  Points per page of the geocode scan
max_retries == 1     \* tasks.py:204  self.retry(...) gives up after this many

Uploads == 1..MaxUploads

NULL == "NULL"
NoDistance == -1     \* the NULL of Distance.distance; no distance is negative
EarthRadius == 6378137   \* geo.py:22, meters
NoTask == "none"     \* no Task row of that type for the upload
TaskStatus == {"pending", "running", "completed", "failed"}
TaskType == {"reverse", "distance"}

VARIABLES
    csvfile,    \* csvfile[u]: number of data rows of statics/uploads/<u>.csv
    task,       \* task[u][t]: status of the Task row (u, t), or NoTask
    point,      \* the Point table; a row's id is its index
    distance,   \* the Distance table; a row's id is its index
    queue,      \* the broker: the task messages in the order they were sent
    chords,     \* the chords of the result backend; a chord's id is its index
    workers,    \* the busy workers: a bag of the locals of the tasks in execution
    faults,     \* exceptions raised so far
    misses,     \* geocoder calls that found no address so far
    config,     \* the deployment and its environment: the size of the worker
                \* pool and the exceptions the environment will raise
    response    \* the last answer of GET /api/getResult (SpecResult only)

vars == <<csvfile, task, point, distance, queue, chords, workers, faults, misses,
          config, response>>

Idle == [pc |-> "idle"]
NoMsg == [kind |-> "none"]

----------------------------------------------------------------------------
(* Helpers over the tables.                                                *)

Min(a, b) == IF a < b THEN a ELSE b

SeqToSet(s) == {s[i] : i \in 1..Len(s)}

\* The elements, in ascending order, of a finite set of integers.
RECURSIVE SortedSeq(_)
SortedSeq(S) ==
    IF S = {} THEN <<>>
    ELSE LET m == CHOOSE x \in S : \A y \in S : x <= y
         IN  <<m>> \o SortedSeq(S \ {m})

\* The broker is a Redis list (settings.py): a worker receives the oldest message.
Messages == IF queue = <<>> THEN {} ELSE {Head(queue)}

\* The geography of CSV row `name` of upload u ("POINT(lon lat)"), in units
\* of 60 degrees: longitude `name`, latitude u - 2.  Distinct rows carry
\* distinct coordinates.
Geom(u, name) == <<name, u - 2>>

PointIds(u) == {i \in 1..Len(point) : point[i].upload_uuid = u}
DistanceIds(u) == {i \in 1..Len(distance) : distance[i].upload_uuid = u}

----------------------------------------------------------------------------
(* POST /api/calculateDistances: save_file and the dispatch it triggers.   *)

\* save_file stores the file, the Upload row and its two pending Tasks in one
\* commit; the endpoint then launches process_file_tasks.  (Uploads are
\* numbered in the order of their arrival.)
save_file(u, rows) ==
    /\ task[u].reverse = NoTask
    /\ \A v \in Uploads : v < u => task[v].reverse # NoTask
    /\ rows = csvfile[u]
    /\ task' = [task EXCEPT ![u] = [reverse |-> "pending", distance |-> "pending"]]
    /\ queue' = Append(queue, [kind |-> "process_file_tasks", retries |-> 0])
    /\ UNCHANGED <<csvfile, point, distance, chords, workers, faults, misses, config,
                   response>>

----------------------------------------------------------------------------
(* The worker pool.  A step is made by a task in execution, or by a task   *)
(* an idle worker receives from the queue and starts at once.              *)

\* The locals of a task when it starts to run message m.
Start(m) ==
    CASE m.kind = "process_file_tasks" ->
           [pc |-> "pft_scan", retries |-> m.retries]
      [] m.kind = "process_upload" ->
           [pc |-> "pu_read", u |-> m.u, retries |-> m.retries,
            origin |-> m.origin, off |-> 0]
      [] m.kind = "reverse_geocode_points" ->
           [pc |-> "rg_page", u |-> m.u, unresolved |-> FALSE, geocoded |-> <<>>]
      [] m.kind = "calculate_distances" ->
           [pc |-> "cd_insert", u |-> m.u, retries |-> m.retries]
      [] m.kind = "calculate_distance_batch" ->
           [pc |-> "cb", chord |-> m.chord, batch_ids |-> m.batch_ids,
            retries |-> m.retries]
      [] m.kind = "finalize_distance_calculations" ->
           [pc |-> "fin", chord |-> m.chord, u |-> m.u]

\* Who can take a step: s.r are the task's locals, s.m the message it is
\* received with (NoMsg for a task already in execution).
Sources ==
    {[m |-> NoMsg, r |-> r] : r \in BagToSet(workers)}
    \cup (IF BagCardinality(workers) < config.workers
          THEN {[m |-> m, r |-> Start(m)] : m \in Messages}
          ELSE {})

\* The pool after source s went on to locals r (Idle: the task has ended).
Pool(s, r) ==
    ((IF s.m = NoMsg THEN workers (-) SetToBag({s.r}) ELSE workers)
     (+) (IF r = Idle THEN EmptyBag ELSE SetToBag({r})))

\* The queue after source s took its step and sent the messages `sent`.
Queue(s, sent) ==
    (IF s.m = NoMsg THEN queue ELSE Tail(queue)) \o sent

\* self.retry(exc=e, countdown=10): the message is queued again until
\* max_retries is exceeded, and then the exception is raised instead.
Retry(m) ==
    IF m.retries < max_retries
    THEN <<[m EXCEPT !.retries = @ + 1]>>
    ELSE <<>>

----------------------------------------------------------------------------
(* process_file_tasks: the dispatcher.                                     *)

\* Task.query.all(): the scan without its status filter.
TasksToProcessAll ==
    {ut \in Uploads \X TaskType : task[ut[1]][ut[2]] # NoTask}

\* Task.query.filter(Task.status.in_([pending, failed])).all()
TasksToProcess ==
    {ut \in Uploads \X TaskType : task[ut[1]][ut[2]] \in {"pending", "failed"}}

UploadsOf(todo) == {ut[1] : ut \in todo}

\* What the dispatcher saw of upload u when it scanned.
Origin(todo, u) ==
    IF \E ut \in todo : ut[1] = u /\ task[u][ut[2]] = "failed"
    THEN "failed" ELSE "pending"

Scanned(retries) ==
    [pc |-> "pft_loop", retries |-> retries,
     tasks_to_process |-> TasksToProcess,
     origin |-> [u \in UploadsOf(TasksToProcess) |-> Origin(TasksToProcess, u)],
     ran_tasks |-> {}]

PFT_Scan(s) ==
    /\ s.r.pc = "pft_scan"
    /\ workers' = Pool(s, Scanned(s.r.retries))
    /\ queue' = Queue(s, <<>>)
    /\ UNCHANGED <<csvfile, task, point, distance, chords, faults, misses, config, response>>

UploadMsg(u, origin) ==
    [kind |-> "process_upload", u |-> u, retries |-> 0, origin |-> origin]

\* One pass of the loop over the Tasks of an upload not launched yet: the
\* status is set on the session's objects, process_upload.delay is sent.
PFT_Launch(s) ==
    /\ s.r.pc = "pft_loop"
    /\ \E u \in UploadsOf(s.r.tasks_to_process) \ s.r.ran_tasks :
         /\ queue' = Queue(s, <<UploadMsg(u, s.r.origin[u])>>)
         /\ workers' = Pool(s, [s.r EXCEPT !.ran_tasks = @ \cup {u}])
    /\ UNCHANGED <<csvfile, task, point, distance, chords, faults, misses, config, response>>

\* The commit had the status been set after the `continue`: only the first
\* Task seen of each upload is running.
CommittedFirstSeen(todo) ==
    [u \in Uploads |->
       [reverse  |-> IF <<u, "reverse">> \in todo THEN "running" ELSE task[u].reverse,
        distance |-> IF <<u, "distance">> \in todo /\ <<u, "reverse">> \notin todo
                     THEN "running" ELSE task[u].distance]]

\* db.session.commit(): UPDATE task SET status = 'running' WHERE id = ..., one
\* statement per Task object of the scan, whatever the row holds by now.
Committed(todo) ==
    [u \in Uploads |->
       [reverse  |-> IF <<u, "reverse">> \in todo THEN "running" ELSE task[u].reverse,
        distance |-> IF <<u, "distance">> \in todo THEN "running" ELSE task[u].distance]]

PFT_Commit(s) ==
    /\ s.r.pc = "pft_loop"
    /\ UploadsOf(s.r.tasks_to_process) \subseteq s.r.ran_tasks
    /\ task' = Committed(s.r.tasks_to_process)
    /\ workers' = Pool(s, Idle)
    /\ queue' = Queue(s, <<>>)
    /\ UNCHANGED <<csvfile, point, distance, chords, faults, misses, config, response>>

\* except Exception: the scan, a delay or the commit raised.  Nothing of the
\* session is committed; what was sent to the broker stays sent.
PFT_Fail(s) ==
    /\ s.r.pc = "pft_loop"
    /\ faults < config.faults
    /\ faults' = faults + 1
    /\ queue' = Queue(s, Retry([kind |-> "process_file_tasks", retries |-> s.r.retries]))
    /\ workers' = Pool(s, Idle)
    /\ UNCHANGED <<csvfile, task, point, distance, chords, misses, config, response>>

----------------------------------------------------------------------------
(* process_upload: load the CSV file into Point, launch both pipelines.    *)

\* The rows off+1 .. to of the file of upload u, as Point rows.
CsvPoints(u, off, to) ==
    [i \in 1..(to - off) |->
       [upload_uuid |-> u, name |-> off + i, geom |-> Geom(u, off + i),
        address |-> NULL]]

\* bulk_insert_mappings + commit of the next BATCH_SIZE rows (the last bulk
\* insert holds what is left).
PU_Insert(s) ==
    /\ s.r.pc = "pu_read"
    /\ s.r.off < csvfile[s.r.u]
    /\ LET to == Min(s.r.off + BATCH_SIZE, csvfile[s.r.u])
       IN  /\ point' = point \o CsvPoints(s.r.u, s.r.off, to)
           /\ workers' = Pool(s, [s.r EXCEPT !.off = to])
    /\ queue' = Queue(s, <<>>)
    /\ UNCHANGED <<csvfile, task, distance, chords, faults, misses, config, response>>

ReverseMsg(u) == [kind |-> "reverse_geocode_points", u |-> u]
DistancesMsg(u) == [kind |-> "calculate_distances", u |-> u, retries |-> 0]

\* reverse_geocode_points.delay(upload_uuid); calculate_distances.delay(upload_uuid)
PU_Launch(s) ==
    /\ s.r.pc = "pu_read"
    /\ s.r.off = csvfile[s.r.u]
    /\ queue' = Queue(s, <<ReverseMsg(s.r.u), DistancesMsg(s.r.u)>>)
    /\ workers' = Pool(s, Idle)
    /\ UNCHANGED <<csvfile, task, point, distance, chords, faults, misses, config, response>>

\* Task.query.filter_by(upload_uuid=upload_uuid).update({"status": failed})
MarkFailed(u) ==
    [task EXCEPT ![u] = [reverse |-> "failed", distance |-> "failed"]]

\* except Exception: every Task of the upload is marked failed and the task
\* retried.  The rows committed so far stay.  sent: the exception came from
\* calculate_distances.delay, after reverse_geocode_points.delay went out.
PU_Fail(s) ==
    /\ s.r.pc = "pu_read"
    /\ faults < config.faults
    /\ faults' = faults + 1
    /\ task' = MarkFailed(s.r.u)
    /\ \E sent \in BOOLEAN :
         /\ sent => s.r.off = csvfile[s.r.u]
         /\ queue' = Queue(s, Retry([UploadMsg(s.r.u, s.r.origin)
                                       EXCEPT !.retries = s.r.retries])
                              \o (IF sent THEN <<ReverseMsg(s.r.u)>> ELSE <<>>))
    /\ workers' = Pool(s, Idle)
    /\ UNCHANGED <<csvfile, point, distance, chords, misses, config, response>>

----------------------------------------------------------------------------
(* The external geocoder client, services/geo.py.                          *)

GeoOutcomes == {"location", "no_location", "GeocoderTimedOut", "GeocoderServiceError"}
ClassifiedFailures == {"GeocoderTimedOut", "GeocoderServiceError"}

\* reverse_geocode: the address, "Address not found", or None for the two
\* classified failures.
reverse_geocode(outcome) ==
    CASE outcome = "location" -> "addr"
      [] outcome = "no_location" -> "Address not found"
      [] outcome \in ClassifiedFailures -> NULL

----------------------------------------------------------------------------
(* reverse_geocode_points: one sequential scan of the upload's points.     *)

\* The page had the cursor been compared with id > last_id + 1.
NextPageSkip(ids, last_id, size) ==
    LET s == SortedSeq({i \in ids : i > last_id + 1})
    IN  SubSeq(s, 1, Min(size, Len(s)))

\* .filter(upload_uuid == u, id > last_id).order_by(id).limit(size) over a table
\* whose rows of upload u have the ids `ids`.
NextPage(ids, last_id, size) ==
    LET s == SortedSeq({i \in ids : i > last_id})
    IN  SubSeq(s, 1, Min(size, Len(s)))

\* UPDATE task SET status = :s WHERE task_type = :t AND status = 'running'
\* AND upload_uuid = :u
SetIfRunning(u, t, s) ==
    IF task[u][t] = "running" THEN [task EXCEPT ![u][t] = s] ELSE task

\* bulk_update_mappings(Point, update_mappings)
UpdateAddresses(maps) ==
    [i \in 1..Len(point) |->
       IF \E k \in 1..Len(maps) : maps[k].id = i
       THEN [point[i] EXCEPT !.address =
               maps[CHOOSE k \in 1..Len(maps) : maps[k].id = i].address]
       ELSE point[i]]

\* The locals once the page query after row last_id returned `batch`: the
\* call for the page's first row is in flight, or the scan has ended.
\* geocoded is the run's history: the rows its calls have returned for.
Paged(r, last_id, batch, unresolved) ==
    IF batch = <<>> THEN Idle
    ELSE [pc |-> "rg_call", u |-> r.u, last_id |-> last_id,
          unresolved |-> unresolved, batch |-> batch, update_mappings |-> <<>>,
          geocoded |-> r.geocoded]

\* The first page query.  An empty page ends the scan, and the finally block
\* stores task_status, which is still completed.
RG_Page(s) ==
    /\ s.r.pc = "rg_page"
    /\ LET batch == NextPage(PointIds(s.r.u), 0, page_size)
       IN  /\ workers' = Pool(s, Paged(s.r, 0, batch, FALSE))
           /\ task' = IF batch = <<>>
                      THEN SetIfRunning(s.r.u, "reverse", "completed")
                      ELSE task
    /\ queue' = Queue(s, <<>>)
    /\ UNCHANGED <<csvfile, point, distance, chords, faults, misses, config, response>>

\* The call in flight (for row Len(update_mappings) + 1 of the page) returns
\* and the next one starts.  After the last row of the page the addresses are
\* written and committed and the next page is queried.
RG_Return(s) ==
    /\ s.r.pc = "rg_call"
    /\ \E outcome \in GeoOutcomes :
         LET row == s.r.batch[Len(s.r.update_mappings) + 1]
             address == reverse_geocode(outcome)
             maps == Append(s.r.update_mappings, [id |-> row, address |-> address])
             unresolved == s.r.unresolved \/ outcome \in ClassifiedFailures
             batch == NextPage(PointIds(s.r.u), row, page_size)
         IN  /\ outcome # "location" => misses < MaxMisses
             /\ misses' = IF outcome # "location" THEN misses + 1 ELSE misses
             /\ IF Len(maps) < Len(s.r.batch)
                THEN /\ workers' = Pool(s, [s.r EXCEPT !.update_mappings = maps,
                                                       !.unresolved = unresolved,
                                                       !.geocoded = Append(@, row)])
                     /\ UNCHANGED <<point, task>>
                ELSE /\ point' = UpdateAddresses(maps)
                     /\ workers' = Pool(s, Paged([s.r EXCEPT !.geocoded = Append(@, row)],
                                                  row, batch, unresolved))
                     /\ task' = IF batch = <<>>
                                THEN SetIfRunning(s.r.u, "reverse", "completed")
                                ELSE task
    /\ queue' = Queue(s, <<>>)
    /\ UNCHANGED <<csvfile, distance, chords, faults, config, response>>

\* except Exception: task_status = failed; raise.  An exception of a page
\* query, of a row's conversion or call, or of the bulk update; the finally
\* block stores the status.
RG_Raise(s) ==
    /\ s.r.pc \in {"rg_page", "rg_call"}
    /\ faults < config.faults
    /\ faults' = faults + 1
    /\ task' = SetIfRunning(s.r.u, "reverse", "failed")
    /\ workers' = Pool(s, Idle)
    /\ queue' = Queue(s, <<>>)
    /\ UNCHANGED <<csvfile, point, distance, chords, misses, config, response>>

----------------------------------------------------------------------------
(* calculate_distances: pair generation, pagination, fan-out.              *)

\* INSERT INTO distance (...) SELECT a.name, b.name, a.geom, b.geom,
\* a.upload_uuid FROM point a JOIN point b ON a.id < b.id
\* WHERE a.upload_uuid = :upload_uuid
JoinPairs(u) ==
    {ab \in (1..Len(point)) \X (1..Len(point)) :
        /\ ab[1] < ab[2]
        /\ point[ab[1]].upload_uuid = u}

DistanceRow(u, a, b) ==
    [upload_uuid |-> u,
     name_a |-> point[a].name, name_b |-> point[b].name,
     point_a |-> point[a].geom, point_b |-> point[b].geom,
     distance |-> NoDistance]

\* The selected rows in the order of the join, (a.id, b.id) ascending.
RECURSIVE PairRows(_, _)
PairRows(u, pairs) ==
    IF pairs = {} THEN <<>>
    ELSE LET ab == CHOOSE x \in pairs : \A y \in pairs :
                     x[1] < y[1] \/ (x[1] = y[1] /\ x[2] <= y[2])
         IN  <<DistanceRow(u, ab[1], ab[2])>> \o PairRows(u, pairs \ {ab})

CD_Insert(s) ==
    /\ s.r.pc = "cd_insert"
    /\ distance' = distance \o PairRows(s.r.u, JoinPairs(s.r.u))
    /\ workers' = Pool(s, [pc |-> "cd_page", u |-> s.r.u, last_id |-> 0,
                            batch_tasks |-> <<>>])
    /\ queue' = Queue(s, <<>>)
    /\ UNCHANGED <<csvfile, task, point, chords, faults, misses, config, response>>

\* except Exception: self.retry.  The insert was not committed.
CD_Fail(s) ==
    /\ s.r.pc = "cd_insert"
    /\ faults < config.faults
    /\ faults' = faults + 1
    /\ queue' = Queue(s, Retry([DistancesMsg(s.r.u) EXCEPT !.retries = s.r.retries]))
    /\ workers' = Pool(s, Idle)
    /\ UNCHANGED <<csvfile, task, point, distance, chords, misses, config, response>>

BatchMsg(c, ids) ==
    [kind |-> "calculate_distance_batch", chord |-> c, batch_ids |-> ids, retries |-> 0]

\* chord(batch_tasks)(finalize_distance_calculations.s(upload_uuid)): the
\* header's tasks are sent, the body waits for all of them.
Chord(u, batch_tasks) ==
    [u |-> u, left |-> Len(batch_tasks), failed |-> FALSE, callbacks |-> 0]

\* One pass of the pagination loop.  The empty page ends it: with batch_tasks
\* the chord is started, without them nothing is.
CD_Page(s) ==
    /\ s.r.pc = "cd_page"
    /\ LET batch_ids == NextPage(DistanceIds(s.r.u), s.r.last_id, batch_size)
           batch_tasks == s.r.batch_tasks
           c == Len(chords) + 1
       IN  IF batch_ids # <<>>
           THEN /\ workers' = Pool(s, [s.r EXCEPT
                     !.last_id = batch_ids[Len(batch_ids)],
                     !.batch_tasks = Append(@, batch_ids)])
                /\ queue' = Queue(s, <<>>)
                /\ UNCHANGED chords
           ELSE /\ workers' = Pool(s, Idle)
                /\ IF batch_tasks # <<>>
                   THEN /\ chords' = Append(chords, Chord(s.r.u, batch_tasks))
                        /\ queue' = Queue(s,
                             [k \in 1..Len(batch_tasks) |-> BatchMsg(c, batch_tasks[k])])
                   ELSE /\ queue' = Queue(s, <<>>)
                        /\ UNCHANGED chords
    /\ UNCHANGED <<csvfile, task, point, distance, faults, misses, config, response>>

----------------------------------------------------------------------------
(* calculate_distance_batch and the chord's callback.                      *)

\* haversine_np over the grid of coordinates that are multiples of 60
\* degrees, where the squares of the sines and the cosines are rational.
\* Angles are in units of 60 degrees.
\* 4 * sin(d / 2) ** 2
Sin2Half(d) == <<0, 1, 3, 4, 3, 1>>[(d % 6) + 1]

\* 2 * cos(lat)
Cos2(lat) == <<2, 1, -1, -2, -1, 1>>[(lat % 6) + 1]

\* 2 * arcsin(sqrt(a16 / 16)), in hundredths of a radian (so that the
\* product with the radius stays within 32 bits)
Arc(a16) ==
    <<0, 51, 72, 90, 105, 119, 132, 145, 157, 170, 182, 196, 209, 225, 242, 264, 314>>[a16 + 1]

\* haversine_np had the cosine of the first latitude been taken twice.
haversine_first(lon1, lat1, lon2, lat2) ==
    LET dlon == lon2 - lon1
        dlat == lat2 - lat1
        a == 4 * Sin2Half(dlat) + Cos2(lat1) * Cos2(lat1) * Sin2Half(dlon)
    IN  (EarthRadius * Arc(a)) \div 100

\* a is computed as its sixteenfold; the result is in whole meters.
haversine_np(lon1, lat1, lon2, lat2) ==
    LET dlon == lon2 - lon1
        dlat == lat2 - lat1
        a == 4 * Sin2Half(dlat) + Cos2(lat1) * Cos2(lat2) * Sin2Half(dlon)
        c == Arc(a)
    IN  (EarthRadius * c) \div 100

\* The bulk update without the filter on the ids: a mapping for every row.
UpdateDistancesAll(batch_ids) ==
    [i \in 1..Len(distance) |->
       [distance[i] EXCEPT
          !.distance = haversine_np(distance[i].point_a[1], distance[i].point_a[2],
                                    distance[i].point_b[1], distance[i].point_b[2])]]

\* records = query(Distance).filter(id.in_(batch_ids)); one mapping per
\* record; bulk_update_mappings(Distance, update_mappings)
UpdateDistances(batch_ids) ==
    [i \in 1..Len(distance) |->
       IF i \in SeqToSet(batch_ids)
       THEN [distance[i] EXCEPT
               !.distance = haversine_np(distance[i].point_a[1], distance[i].point_a[2],
                                         distance[i].point_b[1], distance[i].point_b[2])]
       ELSE distance[i]]

FinalizeMsg(c) ==
    [kind |-> "finalize_distance_calculations", chord |-> c, u |-> chords[c].u]

\* records = query(Distance).filter(id.in_(batch_ids)).all() and the loop
\* over them: one mapping per record.
CB_Read(s) ==
    /\ s.r.pc = "cb"
    /\ workers' = Pool(s, [s.r EXCEPT !.pc = "cb_update"])
    /\ queue' = Queue(s, <<>>)
    /\ UNCHANGED <<csvfile, task, point, distance, chords, faults, misses, config,
                   response>>

\* bulk_update_mappings + commit: the batch unit succeeds.  The last header
\* task of a chord to succeed releases the chord's callback.
CB_Update(s) ==
    /\ s.r.pc = "cb_update"
    /\ distance' = UpdateDistances(s.r.batch_ids)
    /\ chords' = [chords EXCEPT ![s.r.chord].left = @ - 1]
    /\ queue' = Queue(s, IF chords'[s.r.chord].left = 0
                         THEN <<FinalizeMsg(s.r.chord)>>
                         ELSE <<>>)
    /\ workers' = Pool(s, Idle)
    /\ UNCHANGED <<csvfile, task, point, faults, misses, config, response>>

\* except Exception: self.retry; once the retries are exhausted the header
\* task has failed, and Celery never runs the callback of a chord one of
\* whose header tasks failed.
CB_Fail(s) ==
    /\ s.r.pc \in {"cb", "cb_update"}
    /\ faults < config.faults
    /\ faults' = faults + 1
    /\ queue' = Queue(s, Retry([BatchMsg(s.r.chord, s.r.batch_ids)
                                  EXCEPT !.retries = s.r.retries]))
    /\ chords' = IF s.r.retries < max_retries THEN chords
                 ELSE [chords EXCEPT ![s.r.chord].failed = TRUE]
    /\ workers' = Pool(s, Idle)
    /\ UNCHANGED <<csvfile, task, point, distance, misses, config, response>>

\* finalize_distance_calculations: UPDATE task SET status = 'completed' WHERE
\* task_type = 'distance' AND status = 'running' AND upload_uuid = :u
Finalize(s) ==
    /\ s.r.pc = "fin"
    /\ task' = SetIfRunning(s.r.u, "distance", "completed")
    /\ chords' = [chords EXCEPT ![s.r.chord].callbacks = @ + 1]
    /\ queue' = Queue(s, <<>>)
    /\ workers' = Pool(s, Idle)
    /\ UNCHANGED <<csvfile, point, distance, faults, misses, config, response>>

----------------------------------------------------------------------------
(* GET /api/getResult/<upload_uuid>: the status aggregator.                *)

\* No request has been answered yet.
NoResponse == [task_id |-> NULL]

\* tasks = Task.query.filter_by(upload_uuid=upload_uuid).all(), as the types
\* of the rows found.
TasksOf(u) == {t \in TaskType : task[u][t] # NoTask}

\* any(failed) -> failed; all(completed) and tasks -> completed; else running.
\* `statuses` maps the type of each Task row found to its status.
OverallStatusNoGuard(statuses) ==
    IF \E t \in DOMAIN statuses : statuses[t] = "failed" THEN "failed"
    ELSE IF \A t \in DOMAIN statuses : statuses[t] = "completed" THEN "completed"
    ELSE "running"

OverallStatus(statuses) ==
    IF \E t \in DOMAIN statuses : statuses[t] = "failed" THEN "failed"
    ELSE IF (\A t \in DOMAIN statuses : statuses[t] = "completed")
            /\ DOMAIN statuses # {}
    THEN "completed"
    ELSE "running"

get_result(u) ==
    LET points == SortedSeq(PointIds(u))
        distances == SortedSeq(DistanceIds(u))
        statuses == [t \in TasksOf(u) |-> task[u][t]]
    IN  [task_id |-> u,
         status |-> OverallStatus(statuses),
         data |-> [points |-> [k \in 1..Len(points) |->
                                 [name |-> point[points[k]].name,
                                  address |-> point[points[k]].address]],
                   links |-> [k \in 1..Len(distances) |->
                                [name |-> <<distance[distances[k]].name_a,
                                            distance[distances[k]].name_b>>,
                                 distance |-> distance[distances[k]].distance]]],
         statuses |-> statuses]

GetResult(u) ==
    /\ response' = get_result(u)
    /\ UNCHANGED <<csvfile, task, point, distance, queue, chords, workers, faults,
                   misses, config>>

----------------------------------------------------------------------------
(* The system.                                                             *)

\* A scenario: the deployment and its environment (config) and the files
\* the clients are going to upload.  Its load weighs what makes its executions
\* many: the rows, the exceptions, and a worker running beside the first.
Configs == [workers : 1..NumWorkers, faults : 0..MaxFaults]
Files == [Uploads -> 0..MaxRows]

RECURSIVE Rows(_, _)
Rows(files, U) ==
    IF U = {} THEN 0
    ELSE LET u == CHOOSE x \in U : TRUE IN files[u] + Rows(files, U \ {u})

Load(sc) == 2 * (sc.config.workers - 1) + sc.config.faults + Rows(sc.csvfile, Uploads)

Scenarios == {sc \in [config : Configs, csvfile : Files] : Load(sc) <= MaxLoad}

Boot(sc) ==
    /\ csvfile = sc.csvfile
    /\ config = sc.config
    /\ task = [u \in Uploads |-> [reverse |-> NoTask, distance |-> NoTask]]
    /\ point = <<>>
    /\ distance = <<>>
    /\ queue = <<>>
    /\ chords = <<>>
    /\ workers = EmptyBag
    /\ faults = 0
    /\ misses = 0
    /\ response = NoResponse

Init == \E sc \in Scenarios : Boot(sc)

Next ==
    \/ \E u \in Uploads : save_file(u, csvfile[u])
    \/ \E s \in Sources : PFT_Scan(s)
    \/ \E s \in Sources : PFT_Launch(s)
    \/ \E s \in Sources : PFT_Commit(s)
    \/ \E s \in Sources : PFT_Fail(s)
    \/ \E s \in Sources : PU_Insert(s)
    \/ \E s \in Sources : PU_Launch(s)
    \/ \E s \in Sources : PU_Fail(s)
    \/ \E s \in Sources : RG_Page(s)
    \/ \E s \in Sources : RG_Return(s)
    \/ \E s \in Sources : RG_Raise(s)
    \/ \E s \in Sources : CD_Insert(s)
    \/ \E s \in Sources : CD_Fail(s)
    \/ \E s \in Sources : CD_Page(s)
    \/ \E s \in Sources : CB_Read(s)
    \/ \E s \in Sources : CB_Update(s)
    \/ \E s \in Sources : CB_Fail(s)
    \/ \E s \in Sources : Finalize(s)

Spec == Init /\ [][Next]_vars

\* One worker, one file of MaxRows rows, and exceptions enough to exhaust the
\* retries of one task.
RetryScenario ==
    [config |-> [workers |-> 1, faults |-> max_retries + 1],
     csvfile |-> [u \in Uploads |-> IF u = 1 THEN MaxRows ELSE 0]]

SpecRetry == Boot(RetryScenario) /\ [][Next]_vars

\* The aggregator over every Task table: each upload with no, one or two
\* Task rows, each row with any status.
InitResult ==
    /\ task \in [Uploads -> [reverse : TaskStatus \cup {NoTask},
                             distance : TaskStatus \cup {NoTask}]]
    /\ csvfile = [u \in Uploads |-> 0]
    /\ config = [workers |-> 1, faults |-> 0]
    /\ point = <<>>
    /\ distance = <<>>
    /\ queue = <<>>
    /\ chords = <<>>
    /\ workers = EmptyBag
    /\ faults = 0
    /\ misses = 0
    /\ response = NoResponse

NextResult == \E u \in Uploads : GetResult(u)

SpecResult == InitResult /\ [][NextResult]_vars

----------------------------------------------------------------------------
(* Vocabulary of the properties.                                           *)

Saved(u) == task[u].reverse # NoTask

\* Nothing is queued or in execution.
Quiescent == queue = <<>> /\ workers = EmptyBag

\* Nothing is queued or in execution and no upload is still to come: nothing
\* will change any more.
Terminated == Quiescent /\ \A u \in Uploads : Saved(u)

Busy == BagToSet(workers)

PointRows(u) == [i \in PointIds(u) |-> point[i]]
DistanceRows(u) == [i \in DistanceIds(u) |-> distance[i]]

\* The process_upload messages queued for upload u.
Launches(u) ==
    Cardinality({k \in 1..Len(queue) :
                   queue[k].kind = "process_upload" /\ queue[k].u = u})

----------------------------------------------------------------------------
(* C1.  Pair generation.                                                   *)

\* No row of a CSV file is stored as two Point rows.
NoDuplicatePoints ==
    \A i, j \in DOMAIN point :
      point[i].upload_uuid = point[j].upload_uuid /\ point[i].name = point[j].name
        => i = j

\* The Distance rows of upload u are one row per unordered pair of its N
\* points: N*(N-1)/2 rows, none pairing a point with itself, no unordered
\* pair twice.
PairsExact(u) ==
    LET N == Cardinality(PointIds(u))
        rows == DistanceIds(u)
    IN  /\ 2 * Cardinality(rows) = N * (N - 1)
        /\ \A i \in rows : distance[i].point_a # distance[i].point_b
        /\ \A i, j \in rows :
             {distance[i].point_a, distance[i].point_b}
               = {distance[j].point_a, distance[j].point_b} => i = j

\* C1: after pair generation (calculate_distances' INSERT ... SELECT) has run
\* for an upload that had no Distance rows, in a store that holds every CSV
\* row once and may hold points of other uploads, the upload's Distance rows
\* are exactly one per unordered pair of its points.
C1_PairGeneration ==
    [][\A s \in Sources :
         CD_Insert(s) /\ DistanceIds(s.r.u) = {} /\ NoDuplicatePoints
           => PairsExact(s.r.u)']_vars

----------------------------------------------------------------------------
(* C2.  The overall status.                                                *)

Failed(u) == \E t \in TasksOf(u) : task[u][t] = "failed"

----------------------------------------------------------------------------
(* C3.  The upload with no points.                                         *)

\* C3: once nothing is left to run, an upload of 0 points that was dispatched
\* has both Tasks completed and the overall status completed, with no points
\* and no links.
C3_EmptyUploadCompletes ==
    \A u \in Uploads :
      Terminated /\ csvfile[u] = 0 =>
        /\ task[u].reverse = "completed"
        /\ task[u].distance = "completed"
        /\ get_result(u).status = "completed"
        /\ get_result(u).data = [points |-> <<>>, links |-> <<>>]

----------------------------------------------------------------------------
(* C4.  The dispatcher leaves settled uploads alone.                       *)

\* Every Task of upload u is running or completed.
Settled(u) ==
    /\ Saved(u)
    /\ \A t \in TaskType : task[u][t] \in {"running", "completed"}

Dispatchers == {r \in Busy : r.pc = "pft_loop"}

\* C4: a process_file_tasks invocation that scans while every Task of an
\* upload is running or completed does not select that upload, and an
\* invocation launches no process_upload for, and changes no Task, Point or
\* Distance row of, an upload it did not select.
C4_SettledUntouched ==
    [][\A s \in Sources, u \in Uploads :
         /\ PFT_Scan(s) /\ Settled(u) =>
              \A r \in Dispatchers' :
                CopiesIn(r, workers') > CopiesIn(r, workers) =>
                  u \notin UploadsOf(r.tasks_to_process)
         /\ /\ PFT_Launch(s) \/ PFT_Commit(s) \/ PFT_Fail(s)
            /\ u \notin UploadsOf(s.r.tasks_to_process)
            => /\ task'[u] = task[u]
               /\ Launches(u)' = Launches(u)
               /\ PointRows(u)' = PointRows(u)
               /\ DistanceRows(u)' = DistanceRows(u)]_vars

\* A dispatcher has launched another upload and has committed nothing yet,
\* while an upload it did not select stays settled.
C4_Witness ==
    \E r \in Dispatchers, u \in Uploads :
      /\ Settled(u)
      /\ u \notin UploadsOf(r.tasks_to_process)
      /\ r.ran_tasks # {}
      /\ Launches(u) = 0

----------------------------------------------------------------------------
(* C5.  Concurrent dispatchers.                                            *)

\* C5: no two process_file_tasks invocations in flight have both launched
\* process_upload for the same upload on account of the same Task, still
\* pending or failed in the database.
C5_AtMostOneDispatch ==
    \A r1, r2 \in Dispatchers :
      r1 # r2 \/ CopiesIn(r1, workers) > 1 =>
        \A u \in r1.ran_tasks \cap r2.ran_tasks :
          \A t \in TaskType :
            /\ <<u, t>> \in r1.tasks_to_process \cap r2.tasks_to_process
            => task[u][t] \notin {"pending", "failed"}

----------------------------------------------------------------------------
(* C6.  Re-running an upload.                                              *)

\* No unordered pair of points of upload u is stored as two Distance rows.
NoDuplicatePairs(u) ==
    \A i, j \in DistanceIds(u) :
      {distance[i].point_a, distance[i].point_b}
        = {distance[j].point_a, distance[j].point_b} => i = j

\* C6: a process_upload run dispatched again because a Task of the upload was
\* failed leaves no CSV row stored as two Points and no pair stored as two
\* Distance rows.
C6_RerunKeepsRows ==
    [][\A s \in Sources :
         /\ PU_Insert(s)
         /\ s.r.origin = "failed"
         /\ NoDuplicatePoints
         /\ NoDuplicatePairs(s.r.u)
         => NoDuplicatePoints' /\ NoDuplicatePairs(s.r.u)']_vars

----------------------------------------------------------------------------
(* C7.  Geocoder calls in flight.                                          *)

\* C7: at most one reverse_geocode call is in flight for one upload.
C7_OneCallInFlight ==
    \A r1, r2 \in Busy :
      /\ r1.pc = "rg_call"
      /\ r2.pc = "rg_call"
      /\ r1.u = r2.u
      => r1 = r2 /\ CopiesIn(r1, workers) = 1

----------------------------------------------------------------------------
(* C8.  Finalization.                                                      *)

\* C8: the finalize callback of a chord runs at most once and only after all
\* of its batches, and whenever the distance Task of an upload is completed
\* every Distance row of the upload has a distance.
C8_FinalizeAfterBatches ==
    /\ \A c \in DOMAIN chords :
         /\ chords[c].callbacks <= 1
         /\ chords[c].callbacks = 1 => chords[c].left = 0
    /\ \A u \in Uploads :
         task[u].distance = "completed" =>
           \A i \in DistanceIds(u) : distance[i].distance # NoDistance

----------------------------------------------------------------------------
(* C9.  A batch that fails for good.                                       *)

\* C9: once nothing is left to run, the distance Task of an upload one of
\* whose distance batches failed after its last retry is failed.
C9_BatchFailureMarksFailed ==
    \A c \in DOMAIN chords :
      Terminated /\ chords[c].failed => task[chords[c].u].distance = "failed"

----------------------------------------------------------------------------
(* C10.  Classified geocoder failures.                                     *)

\* The scan of the worker of source s ends with this step, no exception
\* raised, having left the address of a point null.
ScanEndsUnresolved(s) ==
    /\ RG_Return(s)
    /\ workers' = Pool(s, Idle)
    /\ \/ s.r.unresolved
       \/ \E k \in 1..Len(s.r.batch) : point'[s.r.batch[k]].address = NULL

\* C10: when a scan in which a lookup failed with GeocoderTimedOut or
\* GeocoderServiceError ends without an exception, the reverse Task of the
\* upload is completed.
C10_ClassifiedFailureCompletes ==
    [][\A s \in Sources :
         ScanEndsUnresolved(s) => task'[s.r.u].reverse = "completed"]_vars

----------------------------------------------------------------------------
(* C11.  The lifecycle of a Task.                                          *)

Lifecycle ==
    {<<"pending", "running">>, <<"failed", "running">>,
     <<"running", "completed">>, <<"running", "failed">>}

\* C11: every change of the status of a Task is pending -> running,
\* failed -> running, running -> completed or running -> failed; a completed
\* Task never changes again and a pending Task never becomes failed or
\* completed directly.
C11_LifecycleTransitions ==
    [][\A u \in Uploads, t \in TaskType :
         task[u][t] # NoTask /\ task'[u][t] # task[u][t]
           => <<task[u][t], task'[u][t]>> \in Lifecycle]_vars

----------------------------------------------------------------------------
(* C12.  One invocation of the dispatcher.                                 *)

\* C12: an invocation of process_file_tasks launches process_upload only for
\* an upload that owns a Task of its scan and that it has not launched yet,
\* one message at a time; when it commits it has launched every such upload
\* and every Task of its scan is running.
C12_DispatchComplete ==
    [][\A s \in Sources :
         /\ PFT_Launch(s) =>
              \E u \in UploadsOf(s.r.tasks_to_process) \ s.r.ran_tasks :
                /\ Launches(u)' = Launches(u) + 1
                /\ \A v \in Uploads \ {u} : Launches(v)' = Launches(v)
                /\ \E r \in Dispatchers' : r.ran_tasks = s.r.ran_tasks \cup {u}
         /\ PFT_Commit(s) =>
              /\ s.r.ran_tasks = UploadsOf(s.r.tasks_to_process)
              /\ \A ut \in s.r.tasks_to_process : task'[ut[1]][ut[2]] = "running"
              /\ \A u \in Uploads : Launches(u)' = Launches(u)]_vars

\* A dispatcher that found both Tasks of an upload has just committed: both
\* are running and one process_upload is queued for the upload.
C12_Witness ==
    \E u \in Uploads :
      /\ Dispatchers = {}
      /\ \A t \in TaskType : task[u][t] = "running"
      /\ Launches(u) = 1
      /\ PointIds(u) = {}

----------------------------------------------------------------------------
(* C13.  No Task runs forever.                                             *)

\* The workers keep taking messages and keep executing the tasks they took.
SpecFair == Spec /\ WF_vars(Next)

\* C13: under fair scheduling of the workers every Task that is running
\* eventually is completed or failed.
C13_TasksLeaveRunning ==
    \A u \in Uploads, t \in TaskType :
      (task[u][t] = "running") ~> (task[u][t] \in {"completed", "failed"})

----------------------------------------------------------------------------
(* C14.  Cursor pagination.                                                *)

RECURSIVE Flatten(_)
Flatten(seqs) == IF seqs = <<>> THEN <<>> ELSE Head(seqs) \o Flatten(Tail(seqs))

\* Every element of S occurs exactly once in seq, and nothing else does.
ExactlyOnce(seq, S) ==
    /\ SeqToSet(seq) = S
    /\ Len(seq) = Cardinality(S)

\* C14: when the pagination loop of a calculate_distances run ends, every
\* Distance row of the upload is in exactly one of its batches and no batch
\* is empty or longer than batch_size; when the scan of a
\* reverse_geocode_points run ends without an exception, the run has called
\* the geocoder exactly once for every Point of the upload.
C14_PaginationExact ==
    [][\A s \in Sources :
         /\ CD_Page(s) /\ workers' = Pool(s, Idle) =>
              /\ ExactlyOnce(Flatten(s.r.batch_tasks), DistanceIds(s.r.u)')
              /\ \A k \in 1..Len(s.r.batch_tasks) :
                   Len(s.r.batch_tasks[k]) \in 1..batch_size
         /\ RG_Page(s) /\ workers' = Pool(s, Idle) => PointIds(s.r.u)' = {}
         /\ RG_Return(s) /\ workers' = Pool(s, Idle) =>
              ExactlyOnce(Append(s.r.geocoded, s.r.batch[Len(s.r.batch)]),
                          PointIds(s.r.u)')]_vars

\* A pagination loop has just ended with several batches: the chord exists
\* and every batch unit is still queued.
C14_Witness ==
    \E c \in DOMAIN chords :
      /\ chords[c].left >= 2
      /\ Cardinality({k \in 1..Len(queue) :
                        /\ queue[k].kind = "calculate_distance_batch"
                        /\ queue[k].chord = c}) = chords[c].left

----------------------------------------------------------------------------
(* C15.  The outcome of a scan and the dispatcher's commit.                *)

\* The scan of the worker of source s ends with this step, no exception
\* raised.
ScanEnds(s) ==
    /\ RG_Page(s) \/ RG_Return(s)
    /\ workers' = Pool(s, Idle)

\* C15: after a reverse_geocode_points run has ended its scan without an
\* exception the reverse Task of the upload is completed, and after an
\* exception has ended it the reverse Task is failed, whatever the dispatcher
\* that launched it has committed so far.
C15_ScanOutcomeRecorded ==
    [][\A s \in Sources :
         /\ ScanEnds(s) => task'[s.r.u].reverse = "completed"
         /\ RG_Raise(s) => task'[s.r.u].reverse = "failed"]_vars

----------------------------------------------------------------------------
(* C16.  haversine_np.                                                     *)

MaxLon == 3          \* longitudes -180 .. 180 degrees, in units of 60

\* The coordinates of the grid, <<lon, lat>>: latitudes -60, 0 and 60 degrees.
Coordinates == (-MaxLon..MaxLon) \X {-1, 0, 1}

\* No distance has been computed for the pair yet.
Unmeasured(A, B) == [a |-> A, b |-> B, ab |-> NoDistance, ba |-> NoDistance,
                     aa |-> NoDistance]

\* The distances between the two coordinates of `response`, both ways, and
\* from the first to itself.
Measure ==
    /\ response.ab = NoDistance
    /\ LET A == response.a
           B == response.b
       IN  response' = [response EXCEPT
                          !.ab = haversine_np(A[1], A[2], B[1], B[2]),
                          !.ba = haversine_np(B[1], B[2], A[1], A[2]),
                          !.aa = haversine_np(A[1], A[2], A[1], A[2])]
    /\ UNCHANGED <<csvfile, task, point, distance, queue, chords, workers, faults,
                   misses, config>>

InitHaversine ==
    /\ \E A, B \in Coordinates : response = Unmeasured(A, B)
    /\ task = [u \in Uploads |-> [reverse |-> NoTask, distance |-> NoTask]]
    /\ csvfile = [u \in Uploads |-> 0]
    /\ config = [workers |-> 1, faults |-> 0]
    /\ point = <<>>
    /\ distance = <<>>
    /\ queue = <<>>
    /\ chords = <<>>
    /\ workers = EmptyBag
    /\ faults = 0
    /\ misses = 0

SpecHaversine == InitHaversine /\ [][Measure]_vars

\* C16: haversine_np gives the same distance from A to B as from B to A, and
\* distance 0 from A to A.
C16_HaversineSymmetric ==
    response.ab # NoDistance => response.ab = response.ba /\ response.aa = 0

\* Two distinct coordinates have been measured, at a distance that is not 0.
C16_Witness ==
    /\ response.a # response.b
    /\ response.ab > 0
    /\ response.ba > 0

----------------------------------------------------------------------------
(* C17.  The endpoints of a Distance row.                                  *)

\* C17: both endpoints of every Distance row are Points of the upload
\* recorded on the row.
C17_PairsWithinUpload ==
    \A d \in DOMAIN distance :
      /\ \E i \in PointIds(distance[d].upload_uuid) :
           point[i].geom = distance[d].point_a /\ point[i].name = distance[d].name_a
      /\ \E i \in PointIds(distance[d].upload_uuid) :
           point[i].geom = distance[d].point_b /\ point[i].name = distance[d].name_b

----------------------------------------------------------------------------
(* C18.  A failure and the sibling pipeline.                               *)

\* The Task types of upload u among the Tasks `todo` of a scan.
TypesOf(todo, u) == {t \in TaskType : <<u, t>> \in todo}

\* C18: the step in which an exception ends a reverse_geocode_points scan
\* leaves the distance Task and the Distance rows of the upload as they are,
\* and the dispatcher launches processing, which starts both pipelines, only
\* for an upload both of whose Tasks it is to run: a failed Task does not
\* restart the pipeline of its sibling.
C18_SiblingUnaffected ==
    [][\A s \in Sources :
         /\ RG_Raise(s) =>
              /\ task'[s.r.u].distance = task[s.r.u].distance
              /\ DistanceRows(s.r.u)' = DistanceRows(s.r.u)
         /\ PFT_Launch(s) =>
              \A u \in Uploads :
                Launches(u)' > Launches(u) =>
                  TypesOf(s.r.tasks_to_process, u) = TaskType]_vars

----------------------------------------------------------------------------
(* C19.  A process_upload attempt that fails partway.                      *)

\* C19: when a process_upload attempt fails, the Point rows it had inserted
\* (the first `off` rows of the file) are no longer in the store.
C19_FailedAttemptLeavesNoPoints ==
    [][\A s \in Sources :
         PU_Fail(s) =>
           Cardinality(PointIds(s.r.u)') = Cardinality(PointIds(s.r.u)) - s.r.off]_vars

----------------------------------------------------------------------------
(* C20.  A dispatch that fails.                                            *)

\* C20: when an invocation of process_file_tasks fails, no Task of its scan
\* whose upload it has launched processing for is still pending or failed.
C20_FailedDispatchLeavesNothing ==
    [][\A s \in Sources :
         PFT_Fail(s) =>
           \A ut \in s.r.tasks_to_process :
             ut[1] \in s.r.ran_tasks =>
               task'[ut[1]][ut[2]] \notin {"pending", "failed"}]_vars


----------------------------------------------------------------------------
(* C21.  The launch of the two pipelines.                                  *)

\* The reverse_geocode_points and calculate_distances messages queued for
\* upload u.
Pipelines(u) ==
    Cardinality({k \in 1..Len(queue) :
                   /\ queue[k].kind \in {"reverse_geocode_points", "calculate_distances"}
                   /\ queue[k].u = u})

\* Every row of the CSV file of upload u is stored as a Point.
AllRowsInserted(u) ==
    \A n \in 1..csvfile[u] : \E i \in PointIds(u) : point[i].name = n

\* C21: process_upload sends the messages of the two pipelines of an upload
\* only when every row of the upload's CSV file is stored as a Point, and an
\* attempt of process_upload that fails sends no pipeline message, marks both
\* Tasks of the upload failed and (within max_retries) queues its retry.
C21_LaunchAfterInsert ==
    [][\A s \in Sources :
         /\ PU_Launch(s) =>
              /\ AllRowsInserted(s.r.u)
              /\ Pipelines(s.r.u)' = Pipelines(s.r.u) + 2
         /\ PU_Fail(s) =>
              /\ Pipelines(s.r.u)' = Pipelines(s.r.u)
              /\ task'[s.r.u] = [reverse |-> "failed", distance |-> "failed"]
              /\ s.r.retries < max_retries => Launches(s.r.u)' = Launches(s.r.u)
                                                 + (IF s.m = NoMsg THEN 1 ELSE 0)]_vars


----------------------------------------------------------------------------
(* C22.  What a batch unit writes.                                         *)

\* The distance between the two coordinate snapshots of Distance row d.
Measured(d) == haversine_np(d.point_a[1], d.point_a[2], d.point_b[1], d.point_b[2])

\* C22: the update of a batch unit (calculate_distance_batch) changes only
\* the distance field of the Distance rows whose ids are in its batch, and
\* sets it to the distance between the row's own two snapshots; the other
\* fields of those rows, every Distance row outside the batch, every Point
\* and every Task status stay as they are.  The value of a row therefore
\* does not depend on the order of the batch units: a row holds no distance
\* yet or the distance between its snapshots.
C22_BatchFrame ==
    [][\A s \in Sources :
         CB_Update(s) =>
           /\ DOMAIN distance' = DOMAIN distance
           /\ \A i \in DOMAIN distance :
                /\ i \in SeqToSet(s.r.batch_ids) =>
                     /\ distance'[i] = [distance[i] EXCEPT !.distance = distance'[i].distance]
                     /\ distance'[i].distance = Measured(distance[i])
                /\ i \notin SeqToSet(s.r.batch_ids) => distance'[i] = distance[i]
                /\ distance'[i].distance \in {NoDistance, Measured(distance'[i])}
           /\ point' = point
           /\ task' = task]_vars

\* A batch unit is about to write while another row of the same upload
\* already holds its (positive) distance and a third row of it is outside the batch and
\* still without one.
C22_Witness ==
    \E r \in BagToSet(workers) :
      /\ r.pc = "cb_update"
      /\ \E i, j \in DOMAIN distance :
           /\ i \notin SeqToSet(r.batch_ids) /\ j \notin SeqToSet(r.batch_ids)
           /\ distance[i].upload_uuid = distance[j].upload_uuid
           /\ \A k \in SeqToSet(r.batch_ids) :
                distance[k].upload_uuid = distance[i].upload_uuid
           /\ distance[i].distance > 0
           /\ distance[j].distance = NoDistance


----------------------------------------------------------------------------
(* C23.  The rows of the Task table.                                       *)
(* The Task table is kept here row by row (a row's id is its index), and   *)
(* every statement of the program that writes it is an action of its own.  *)
(* The order the pipeline imposes on the statements is left out, so every  *)
(* interleaving the program has is among the behaviours.  csvfile holds a  *)
(* file per upload save_file has created, numbered in order of arrival.    *)

\* Task(status=pending, task_type=t, upload_uuid=u)
TaskRow(u, t) == [status |-> "pending", task_type |-> t, upload_uuid |-> u]

\* Two Task rows of the same type.
NewTasksSameType(u) == <<TaskRow(u, "reverse"), TaskRow(u, "reverse")>>

\* reverse_task, distance_task; db.session.add_all([reverse_task, distance_task])
NewTasks(u) == <<TaskRow(u, "reverse"), TaskRow(u, "distance")>>

\* The ids of the Task rows of upload u and type t.
TaskIds(u, t) ==
    {i \in DOMAIN task : task[i].upload_uuid = u /\ task[i].task_type = t}

\* UPDATE task SET status = s WHERE id IN ids
SetStatus(ids, s) ==
    [i \in DOMAIN task |-> IF i \in ids THEN [task[i] EXCEPT !.status = s] ELSE task[i]]

\* save_file: the file, the Upload row and its Task rows in one commit.
InsertTasks(rows) ==
    /\ Len(csvfile) < MaxUploads
    /\ csvfile' = Append(csvfile, rows)
    /\ task' = task \o NewTasks(Len(csvfile) + 1)
    /\ UNCHANGED <<point, distance, queue, chords, workers, faults, misses, config,
                   response>>

\* process_file_tasks: Task.query.filter(Task.status.in_([pending, failed])).all()
ScanRows ==
    /\ BagCardinality(workers) < NumWorkers
    /\ LET ids == {i \in DOMAIN task : task[i].status \in {"pending", "failed"}}
       IN  workers' = workers (+) SetToBag({[pc |-> "pft_loop", tasks_to_process |-> ids]})
    /\ UNCHANGED <<csvfile, task, point, distance, queue, chords, faults, misses,
                   config, response>>

\* process_file_tasks: task_record.status = running on the scanned rows, and
\* db.session.commit().
CommitRows(r) ==
    /\ r.pc = "pft_loop"
    /\ task' = SetStatus(r.tasks_to_process, "running")
    /\ workers' = workers (-) SetToBag({r})
    /\ UNCHANGED <<csvfile, point, distance, queue, chords, faults, misses, config,
                   response>>

\* process_file_tasks: except Exception, before the commit; the session's
\* changes are dropped.
RollbackRows(r) ==
    /\ r.pc = "pft_loop"
    /\ workers' = workers (-) SetToBag({r})
    /\ UNCHANGED <<csvfile, task, point, distance, queue, chords, faults, misses,
                   config, response>>

\* process_upload: Task.query.filter_by(upload_uuid=u).update({"status": failed})
FailRows(u) ==
    /\ task' = SetStatus({i \in DOMAIN task : task[i].upload_uuid = u}, "failed")
    /\ UNCHANGED <<csvfile, point, distance, queue, chords, workers, faults, misses,
                   config, response>>

\* reverse_geocode_points, finally: UPDATE task SET status = :status WHERE
\* task_type = 'reverse' AND status = 'running' AND upload_uuid = :upload_uuid
ReverseRows(u, s) ==
    /\ task' = SetStatus({i \in TaskIds(u, "reverse") : task[i].status = "running"}, s)
    /\ UNCHANGED <<csvfile, point, distance, queue, chords, workers, faults, misses,
                   config, response>>

\* finalize_distance_calculations: the running distance Task of the upload
\* is set to completed.
FinalizeRows(u) ==
    /\ task' = SetStatus({i \in TaskIds(u, "distance") : task[i].status = "running"},
                         "completed")
    /\ UNCHANGED <<csvfile, point, distance, queue, chords, workers, faults, misses,
                   config, response>>

InitTasks ==
    /\ csvfile = <<>>
    /\ task = <<>>
    /\ config = [workers |-> NumWorkers, faults |-> 0]
    /\ point = <<>>
    /\ distance = <<>>
    /\ queue = <<>>
    /\ chords = <<>>
    /\ workers = EmptyBag
    /\ faults = 0
    /\ misses = 0
    /\ response = NoResponse

NextTasks ==
    \/ \E rows \in 0..MaxRows : InsertTasks(rows)
    \/ ScanRows
    \/ \E r \in BagToSet(workers) : CommitRows(r)
    \/ \E r \in BagToSet(workers) : RollbackRows(r)
    \/ \E u \in DOMAIN csvfile : FailRows(u)
    \/ \E u \in DOMAIN csvfile : \E s \in {"completed", "failed"} : ReverseRows(u, s)
    \/ \E u \in DOMAIN csvfile : FinalizeRows(u)

SpecTasks == InitTasks /\ [][NextTasks]_vars

\* C23: in every reachable state each upload created by save_file has exactly
\* one Task row of type reverse and exactly one of type distance (and no
\* Task row belongs to another upload); a step that is not save_file keeps
\* every Task row, changing at most its status, and adds none.
C23_ExactlyTwoTasks ==
    /\ [](/\ \A u \in DOMAIN csvfile : \A t \in TaskType : Cardinality(TaskIds(u, t)) = 1
          /\ \A i \in DOMAIN task : task[i].upload_uuid \in DOMAIN csvfile)
    /\ [][Len(csvfile') = Len(csvfile) =>
            /\ DOMAIN task' = DOMAIN task
            /\ \A i \in DOMAIN task :
                 task'[i] = [task[i] EXCEPT !.status = task'[i].status]]_vars

\* Two uploads have been saved, the dispatcher and both pipelines have
\* written the Task rows (one is completed, one failed, one running) and a
\* dispatcher still holds a scan of rows it is to mark running.
C23_Witness ==
    /\ Len(csvfile) = MaxUploads
    /\ Len(task) = 2 * MaxUploads
    /\ \E i, j, k \in DOMAIN task :
         /\ task[i].status = "completed" /\ task[i].task_type = "distance"
         /\ task[j].status = "failed"
         /\ task[k].status = "running"
    /\ \E r \in BagToSet(workers) : r.tasks_to_process # {}

============================================================================
